---- MODULE Spec2Model ----
(***************************************************************************)
(* A model of lookup.py: the keychain-backed configuration store, the      *)
(* configuration selection of main(), the token request and the lookup     *)
(* dispatch.                                                               *)
(*                                                                         *)
(* Python strings that the program trims, lower-cases or serialises are    *)
(* tuples of one-character strings.  The JSON text kept in the keychain is *)
(* the sequence of its lexical tokens: punctuation tokens and string       *)
(* literals, a literal carrying its characters as they are written between *)
(* the quotes (escapes included).                                          *)
(***************************************************************************)
EXTENDS Integers, Sequences, FiniteSets, TLC

(* ------------------------------------------------------------------ *)
(* Bounds of the model                                                 *)
(* ------------------------------------------------------------------ *)

\* The most configurations the store is let to grow to.
MaxConfigs == 2

\* The longest batch of ids given to -u / -q.
MaxBatch == 2

(* ------------------------------------------------------------------ *)
(* Strings                                                             *)
(* ------------------------------------------------------------------ *)

\* Python's None where a str is expected, where a list of str is expected and
\* where a dict is expected (a value of the shape of what it stands in for).
None == <<"None">>
NoneList == <<None>>
NoneDict == <<[k |-> None, v |-> None]>>

S_empty == << >>
S_space == <<" ">>
S_default == <<"d", "e", "f", "a", "u", "l", "t">>
S_Default == <<"D", "e", "f", "a", "u", "l", "t">>
S_a == <<"a">>
S_a_padded == <<" ", "a", " ">>
S_b == <<"b">>
S_zz == <<"z", "z">>
S_i == <<"i">>
S_n == <<"n">>
S_n_padded == <<"n", " ">>
S_id == <<"i", "d">>
S_r == <<"r">>
S_x == <<"x">>
S_x_padded == <<" ", "x">>
S_secret == <<"y", "\"", "\\">>

DEFAULT_REGION == <<"u", "s", "w", "2", ".", "p", "u", "r", "e", ".", "c", "l", "o", "u", "d">>

K_name == <<"n", "a", "m", "e">>
K_CLIENT_ID == <<"C", "L", "I", "E", "N", "T", "_", "I", "D">>
K_CLIENT_SECRET == <<"C", "L", "I", "E", "N", "T", "_", "S", "E", "C", "R", "E", "T">>
K_GENESYS_CLOUD_REGION == <<"G", "E", "N", "E", "S", "Y", "S", "_", "C", "L", "O", "U", "D", "_", "R", "E", "G", "I", "O", "N">>

UpperAlpha == <<"A", "B", "C", "D", "E", "F", "G", "H", "I", "J", "K", "L", "M", "N", "O", "P", "Q", "R", "S", "T", "U", "V", "W", "X", "Y", "Z">>
LowerAlpha == <<"a", "b", "c", "d", "e", "f", "g", "h", "i", "j", "k", "l", "m", "n", "o", "p", "q", "r", "s", "t", "u", "v", "w", "x", "y", "z">>

IsSpace(c) == c \in {" ", "\t", "\n"}

LowerChar(c) ==
  IF \E i \in 1..Len(UpperAlpha) : UpperAlpha[i] = c
  THEN LowerAlpha[CHOOSE i \in 1..Len(UpperAlpha) : UpperAlpha[i] = c]
  ELSE c

\* str.lower()
lower(s) == [i \in 1..Len(s) |-> LowerChar(s[i])]

\* str.strip(): leading and trailing whitespace removed.
strip(s) ==
  IF \A i \in 1..Len(s) : IsSpace(s[i])
  THEN << >>
  ELSE LET first == CHOOSE i \in 1..Len(s) :
                      ~IsSpace(s[i]) /\ \A j \in 1..(i - 1) : IsSpace(s[j])
           last  == CHOOSE i \in 1..Len(s) :
                      ~IsSpace(s[i]) /\ \A j \in (i + 1)..Len(s) : IsSpace(s[j])
       IN SubSeq(s, first, last)

\* Python truthiness of a str or None, of a list or None, of a dict or None.
Truthy(v) == v # None /\ v # << >>
TruthyList(v) == v # NoneList /\ v # << >>
TruthyDict(v) == v # NoneDict /\ v # << >>

\* `a or b` on strings.
Or(a, b) == IF Truthy(a) THEN a ELSE b

\* `needle in hay` on strings.
Contains(needle, hay) ==
  \E i \in 1..(Len(hay) - Len(needle) + 1) :
    SubSeq(hay, i, i + Len(needle) - 1) = needle

(* ------------------------------------------------------------------ *)
(* Python dicts: a sequence of key/value items in insertion order      *)
(* ------------------------------------------------------------------ *)

HasKey(d, k) == \E i \in 1..Len(d) : d[i].k = k

\* d[k]; the caller guards against KeyError with HasKey.
Item(d, k) == d[CHOOSE i \in 1..Len(d) : d[i].k = k].v

\* d.get(k, dflt)
Get(d, k, dflt) == IF HasKey(d, k) THEN Item(d, k) ELSE dflt

\* The dict literal of lines 84-89 and 120-125.
ConfigDict(name, client_id, client_secret, region) ==
  << [k |-> K_name, v |-> name],
     [k |-> K_CLIENT_ID, v |-> client_id],
     [k |-> K_CLIENT_SECRET, v |-> client_secret],
     [k |-> K_GENESYS_CLOUD_REGION, v |-> region] >>

(* ------------------------------------------------------------------ *)
(* json.dumps / json.loads                                             *)
(* ------------------------------------------------------------------ *)

Tok(t) == [t |-> t, v |-> << >>]
StrTok(chars) == [t |-> "str", v |-> chars]

\* The characters json.dumps writes for one character of a str.
EscapeChar(c) ==
  IF c = "\"" THEN <<"\\", "\"">>
  ELSE IF c = "\\" THEN <<"\\", "\\">>
  ELSE <<c>>

RECURSIVE Escape(_)
Escape(s) == IF s = << >> THEN << >> ELSE EscapeChar(Head(s)) \o Escape(Tail(s))

\* The str a JSON string literal denotes; ok is FALSE for a literal json.loads
\* rejects (a bare quote, a backslash that escapes nothing it accepts).
\* A literal without quote or backslash denotes its own characters.
RECURSIVE Unescape(_)
Unescape(lit) ==
  IF \A i \in 1..Len(lit) : lit[i] \notin {"\"", "\\"} THEN [ok |-> TRUE, s |-> lit]
  ELSE IF Head(lit) = "\"" THEN [ok |-> FALSE, s |-> << >>]
  ELSE IF Head(lit) = "\\"
       THEN IF Len(lit) >= 2 /\ lit[2] \in {"\"", "\\"}
            THEN LET rest == Unescape(SubSeq(lit, 3, Len(lit)))
                 IN [ok |-> rest.ok, s |-> <<lit[2]>> \o rest.s]
            ELSE [ok |-> FALSE, s |-> << >>]
       ELSE LET rest == Unescape(Tail(lit))
            IN [ok |-> rest.ok, s |-> <<Head(lit)>> \o rest.s]

RECURSIVE DumpItems(_)
DumpItems(d) ==
  IF d = << >> THEN << >>
  ELSE <<StrTok(Escape(d[1].k)), Tok(":"), StrTok(Escape(d[1].v))>>
       \o (IF Len(d) > 1 THEN <<Tok(",")>> ELSE << >>)
       \o DumpItems(Tail(d))

DumpDict(d) == <<Tok("{")>> \o DumpItems(d) \o <<Tok("}")>>

RECURSIVE DumpElements(_)
DumpElements(l) ==
  IF l = << >> THEN << >>
  ELSE DumpDict(l[1])
       \o (IF Len(l) > 1 THEN <<Tok(",")>> ELSE << >>)
       \o DumpElements(Tail(l))

\* json.dumps of a list of dicts of str.
json_dumps(configs) == <<Tok("[")>> \o DumpElements(configs) \o <<Tok("]")>>

Failed == [ok |-> FALSE, type |-> "none", val |-> << >>, pos |-> 0]
TokAt(text, pos) == IF pos <= Len(text) THEN text[pos].t ELSE "eof"

\* The members of an object from pos on, up to and including its "}".
RECURSIVE ParseMembers(_, _, _)
ParseMembers(text, pos, acc) ==
  IF TokAt(text, pos) = "str" /\ TokAt(text, pos + 1) = ":" /\ TokAt(text, pos + 2) = "str"
  THEN LET key == Unescape(text[pos].v)
           val == Unescape(text[pos + 2].v)
           got == Append(acc, [k |-> key.s, v |-> val.s])
       IN IF ~key.ok \/ ~val.ok THEN Failed
          ELSE IF TokAt(text, pos + 3) = "," THEN ParseMembers(text, pos + 4, got)
          ELSE IF TokAt(text, pos + 3) = "}"
               THEN [ok |-> TRUE, type |-> "dict", val |-> got, pos |-> pos + 4]
          ELSE Failed
  ELSE Failed

ParseObject(text, pos) ==
  IF TokAt(text, pos) # "{" THEN Failed
  ELSE IF TokAt(text, pos + 1) = "}"
       THEN [ok |-> TRUE, type |-> "dict", val |-> << >>, pos |-> pos + 2]
  ELSE ParseMembers(text, pos + 1, << >>)

\* The elements of an array from pos on, up to and including its "]".
RECURSIVE ParseElements(_, _, _)
ParseElements(text, pos, acc) ==
  LET el == ParseObject(text, pos)
  IN IF ~el.ok THEN Failed
     ELSE IF TokAt(text, el.pos) = "," THEN ParseElements(text, el.pos + 1, Append(acc, el.val))
     ELSE IF TokAt(text, el.pos) = "]"
          THEN [ok |-> TRUE, type |-> "list", val |-> Append(acc, el.val), pos |-> el.pos + 1]
     ELSE Failed

ParseValue(text) ==
  IF TokAt(text, 1) = "[" THEN
     IF TokAt(text, 2) = "]"
     THEN [ok |-> TRUE, type |-> "list", val |-> << >>, pos |-> 3]
     ELSE ParseElements(text, 2, << >>)
  ELSE IF TokAt(text, 1) = "{" THEN ParseObject(text, 1)
  ELSE IF TokAt(text, 1) = "str" THEN
     IF Unescape(text[1].v).ok
     THEN [ok |-> TRUE, type |-> "str", val |-> << >>, pos |-> 2]
     ELSE Failed
  ELSE Failed

\* json.loads on the grammar the store can hold here: an array of objects
\* with str members, an object with str members, or a str.  ok is FALSE
\* where json.loads raises (malformed text, or text after the value).
json_loads(text) ==
  LET r == ParseValue(text)
  IN IF r.ok /\ r.pos = Len(text) + 1 THEN r ELSE Failed

(* ------------------------------------------------------------------ *)
(* State                                                               *)
(* ------------------------------------------------------------------ *)

VARIABLES
  backend,   \* "ok", or "fail" when keyring has no usable backend (its calls raise)
  keychain,  \* the password kept under (KEYCHAIN_SERVICE, KEYCHAIN_USER): [set, text]
  pc,        \* where the current invocation of main() stands
  status,    \* how the invocation ended: "none", "exit0", "exit1", "exception"
  args,      \* the argparse namespace
  config,    \* main()'s config
  region,    \* main()'s region
  idx,       \* the position of process_users / process_queues in its batch
  calls,     \* the HTTP requests of this invocation, in order
  lines,     \* the per-id result lines printed by this invocation, in order
  copied,    \* whether this invocation put a URL on the clipboard
  typed,     \* what the user typed at the configuration prompts of this invocation
  menu,      \* the rows the user picked in the configuration menus shown (0: cancelled)
  before     \* the keychain value when this invocation started

vars == <<backend, keychain, pc, status, args, config, region, idx, calls, lines,
          copied, typed, menu, before>>

(* ------------------------------------------------------------------ *)
(* The configuration store                                             *)
(* ------------------------------------------------------------------ *)

\* get_stored_configs(): raised is TRUE where keyring.get_password raises,
\* which the function does not catch.
get_stored_configs(be, kc) ==
  IF be = "fail" THEN [raised |-> TRUE, configs |-> << >>]
  ELSE IF kc.set /\ kc.text # << >>
       THEN LET parsed == json_loads(kc.text)
            IN IF parsed.ok /\ parsed.type = "list"
               THEN [raised |-> FALSE, configs |-> parsed.val]
               ELSE [raised |-> FALSE, configs |-> << >>]
       ELSE [raised |-> FALSE, configs |-> << >>]

\* store_configs writing the newest configuration in place of the list.
store_configs_last(configs) ==
  [set |-> TRUE, text |-> IF configs = << >> THEN json_dumps(configs)
                          ELSE DumpDict(configs[Len(configs)])]

\* store_configs(configs): the keychain value it leaves.
store_configs(configs) == [set |-> TRUE, text |-> json_dumps(configs)]

\* The first index of seq whose element satisfies Test, 0 when none does.
FirstIndex(seq, Test(_)) ==
  IF \E i \in 1..Len(seq) : Test(seq[i])
  THEN CHOOSE i \in 1..Len(seq) : Test(seq[i]) /\ \A j \in 1..(i - 1) : ~Test(seq[j])
  ELSE 0

IsDefaultName(cfg) == lower(Get(cfg, K_name, << >>)) = S_default

\* choose_default_config comparing the name with "default" as it is written.
choose_default_config_exact(configs, pick) ==
  LET IsDefault(cfg) == Get(cfg, K_name, << >>) = S_default
      d == FirstIndex(configs, IsDefault)
  IN IF d # 0
     THEN [raised |-> FALSE, asked |-> FALSE, config |-> configs[d]]
     ELSE IF Len(configs) > 1
          THEN IF pick = 0 \/ \E i \in 1..Len(configs) : ~HasKey(configs[i], K_name)
               THEN [raised |-> TRUE, asked |-> TRUE, config |-> NoneDict]
               ELSE LET selected_name == Item(configs[pick], K_name)
                        HasName(cfg) == Get(cfg, K_name, None) = selected_name
                    IN [raised |-> FALSE, asked |-> TRUE,
                        config |-> configs[FirstIndex(configs, HasName)]]
          ELSE IF Len(configs) > 0
               THEN [raised |-> FALSE, asked |-> FALSE, config |-> configs[1]]
               ELSE [raised |-> FALSE, asked |-> FALSE, config |-> NoneDict]

\* choose_default_config(configs), the user picking row `pick` of the menu
\* when one is shown (0: the prompt is cancelled and answer is None).
\* asked tells whether the menu was shown, raised whether the function raised.
choose_default_config(configs, pick) ==
  LET d == FirstIndex(configs, IsDefaultName)
  IN IF d # 0
     THEN [raised |-> FALSE, asked |-> FALSE, config |-> configs[d]]
     ELSE IF Len(configs) > 1
          THEN IF pick = 0 \/ \E i \in 1..Len(configs) : ~HasKey(configs[i], K_name)
               THEN [raised |-> TRUE, asked |-> TRUE, config |-> NoneDict]
               ELSE LET selected_name == Item(configs[pick], K_name)
                        HasName(cfg) == Get(cfg, K_name, None) = selected_name
                    IN [raised |-> FALSE, asked |-> TRUE,
                        config |-> configs[FirstIndex(configs, HasName)]]
          ELSE IF Len(configs) > 0
               THEN [raised |-> FALSE, asked |-> FALSE, config |-> configs[1]]
               ELSE [raised |-> FALSE, asked |-> FALSE, config |-> NoneDict]

\* Lines 77-89 of setup_config: the configuration made from what was typed;
\* exit is TRUE where exit(1) is called.
setup_config_data(t) ==
  LET name == Or(strip(t.name), S_default)
      reg == Or(strip(t.region), DEFAULT_REGION)
      client_id == strip(t.client_id)
      client_secret == strip(t.client_secret)
  IN [exit |-> ~Truthy(client_id) \/ ~Truthy(client_secret),
      config |-> ConfigDict(name, client_id, client_secret, reg)]

\* prompt_config_data checking the client id alone before it returns.
prompt_config_data_id_only(existing, t) ==
  LET name == IF TruthyDict(existing)
              THEN Or(strip(t.name), Get(existing, K_name, None))
              ELSE Or(strip(t.name), S_default)
      reg == IF TruthyDict(existing)
             THEN Or(strip(t.region), Get(existing, K_GENESYS_CLOUD_REGION, DEFAULT_REGION))
             ELSE Or(strip(t.region), DEFAULT_REGION)
      client_id == IF TruthyDict(existing)
                   THEN Or(strip(t.client_id), Get(existing, K_CLIENT_ID, None))
                   ELSE strip(t.client_id)
      client_secret == IF TruthyDict(existing)
                       THEN Or(strip(t.client_secret), Get(existing, K_CLIENT_SECRET, None))
                       ELSE strip(t.client_secret)
  IN [exit |-> ~Truthy(client_id),
      config |-> ConfigDict(name, client_id, client_secret, reg)]

\* prompt_config_data(existing_config): existing is NoneDict for a new
\* configuration; exit is TRUE where exit(1) is called.
prompt_config_data(existing, t) ==
  LET name == IF TruthyDict(existing)
              THEN Or(strip(t.name), Get(existing, K_name, None))
              ELSE Or(strip(t.name), S_default)
      reg == IF TruthyDict(existing)
             THEN Or(strip(t.region), Get(existing, K_GENESYS_CLOUD_REGION, DEFAULT_REGION))
             ELSE Or(strip(t.region), DEFAULT_REGION)
      client_id == IF TruthyDict(existing)
                   THEN Or(strip(t.client_id), Get(existing, K_CLIENT_ID, None))
                   ELSE strip(t.client_id)
      client_secret == IF TruthyDict(existing)
                       THEN Or(strip(t.client_secret), Get(existing, K_CLIENT_SECRET, None))
                       ELSE strip(t.client_secret)
  IN [exit |-> ~Truthy(client_id) \/ ~Truthy(client_secret),
      config |-> ConfigDict(name, client_id, client_secret, reg)]

(* ------------------------------------------------------------------ *)
(* Inputs                                                              *)
(* ------------------------------------------------------------------ *)

\* What the user may type at the four configuration prompts.
NameInputs == {S_empty, S_Default, S_a_padded, S_b}
RegionInputs == {S_empty, S_r}
ClientIdInputs == {S_space, S_x_padded}
SecretInputs == {S_empty, S_secret}
\* Every name and region with credentials given, and every choice of
\* credentials (given or left blank) with the name and the region left blank.
Typings ==
  [name : NameInputs, region : RegionInputs,
   client_id : {S_x_padded}, client_secret : {S_secret}]
  \cup [name : {S_empty}, region : {S_empty},
        client_id : ClientIdInputs, client_secret : SecretInputs]
NothingTyped == [name |-> None, region |-> None, client_id |-> None, client_secret |-> None]

\* The n-th id, and the batch of the first n ids.
Id(n) == <<UpperAlpha[n]>>
Batch(n) == [i \in 1..n |-> Id(i)]
Batches == {Batch(n) : n \in 1..MaxBatch}

\* The lookup flags of a command line: none, one of them, or all five (with
\* one id each).
GivenCount(a) ==
  (IF a.interaction # None THEN 1 ELSE 0) + (IF a.user_id # NoneList THEN 1 ELSE 0)
  + (IF a.queue_id # NoneList THEN 1 ELSE 0) + (IF a.user_name # None THEN 1 ELSE 0)
  + (IF a.queue_name # None THEN 1 ELSE 0)

LookupFlags ==
  {a \in [interaction : {None, S_i}, user_id : {NoneList} \cup Batches,
          queue_id : {NoneList} \cup Batches, user_name : {None, S_n},
          queue_name : {None, S_n}] :
     \/ GivenCount(a) = 0
     \/ GivenCount(a) = 1 /\ a.user_id \in {NoneList, Batch(MaxBatch)}
                          /\ a.queue_id \in {NoneList, Batch(MaxBatch)}
     \/ GivenCount(a) = 5 /\ a.user_id = Batch(1) /\ a.queue_id = Batch(1)}

OrgInputs == {S_empty, S_a, S_zz}

MakeArgs(new_config, edit_config, org, f) ==
  [new_config |-> new_config, edit_config |-> edit_config, org |-> org,
   interaction |-> f.interaction, user_id |-> f.user_id, queue_id |-> f.queue_id,
   user_name |-> f.user_name, queue_name |-> f.queue_name]

NoFlags == [interaction |-> None, user_id |-> NoneList, queue_id |-> NoneList,
            user_name |-> None, queue_name |-> None]

\* The command lines of the model (parser.parse_args(), lines 314-323):
\* --new-config and --edit-config, every choice of lookup flags without
\* --org, and --org with a user-name search.
CommandLines ==
  {MakeArgs(TRUE, e, None, NoFlags) : e \in BOOLEAN}
  \cup {MakeArgs(FALSE, TRUE, None, NoFlags)}
  \cup {MakeArgs(FALSE, FALSE, None, f) : f \in LookupFlags}
  \cup {MakeArgs(FALSE, FALSE, o, [NoFlags EXCEPT !.user_name = S_n]) : o \in OrgInputs}

\* The keychain values an invocation may find that no invocation wrote.
NoPassword == [set |-> FALSE, text |-> << >>]
ForeignValues ==
  { [set |-> TRUE, text |-> << >>],
    [set |-> TRUE, text |-> <<Tok("["), Tok("{")>>],
    [set |-> TRUE, text |-> <<Tok("{"), Tok("}")>>],
    [set |-> TRUE, text |-> <<StrTok(S_x)>>],
    [set |-> TRUE, text |-> <<Tok("["), Tok("]")>>] }

(* ------------------------------------------------------------------ *)
(* Invocations of main()                                               *)
(* ------------------------------------------------------------------ *)

\* No process: the shell waits for a command line.
NoProcess ==
  /\ pc = "shell"
  /\ status = "none"
  /\ args = MakeArgs(FALSE, FALSE, None, NoFlags)
  /\ config = NoneDict
  /\ region = None
  /\ idx = 1
  /\ calls = << >>
  /\ lines = << >>
  /\ copied = FALSE
  /\ typed = NothingTyped
  /\ menu = << >>
  /\ before = NoPassword

\* An empty store behind a working keyring.
Init ==
  /\ backend = "ok"
  /\ keychain = NoPassword
  /\ NoProcess

\* Any keychain value, behind a keyring that works or one that does not.
InitEnv ==
  /\ backend \in {"ok", "fail"}
  /\ keychain \in {NoPassword} \cup ForeignValues
  /\ NoProcess

StoredNow == get_stored_configs(backend, keychain).configs

\* The shell starts the program with a command line.  --new-config is run
\* only while the store is below the model's size bound.
Start(a) ==
  /\ pc = "shell"
  /\ a.new_config => Len(StoredNow) < MaxConfigs
  /\ pc' = "main"
  /\ args' = a
  /\ before' = keychain
  /\ UNCHANGED <<backend, keychain, status, config, region, idx, calls, lines, copied,
                 typed, menu>>

\* The ended process is gone, and with it everything but the keychain.
Reap ==
  /\ pc = "exited"
  /\ pc' = "shell"
  /\ status' = "none"
  /\ args' = MakeArgs(FALSE, FALSE, None, NoFlags)
  /\ config' = NoneDict
  /\ region' = None
  /\ idx' = 1
  /\ calls' = << >>
  /\ lines' = << >>
  /\ copied' = FALSE
  /\ typed' = NothingTyped
  /\ menu' = << >>
  /\ before' = NoPassword
  /\ UNCHANGED <<backend, keychain>>

\* The process ends: sys.exit / exit, an uncaught exception, or main() returning.
Ends(how) == pc' = "exited" /\ status' = how

\* main() lines 326-328 with create_new_config(): the user types t at the
\* prompts of prompt_config_data().
create_new_config ==
  /\ pc = "main"
  /\ args.new_config
  /\ \E got \in {get_stored_configs(backend, keychain)} :
        \E t \in Typings :
          LET data == prompt_config_data(NoneDict, t)
          IN /\ typed' = t
             /\ IF data.exit
                THEN Ends("exit1") /\ UNCHANGED <<keychain, config>>
                ELSE IF got.raised
                THEN Ends("exception") /\ UNCHANGED <<keychain, config>>
                ELSE /\ keychain' = store_configs(Append(got.configs, data.config))
                     /\ config' = data.config
                     /\ Ends("exit0")
  /\ UNCHANGED <<backend, args, region, idx, calls, lines, copied, menu, before>>

\* The configuration the menu answer stands for: the first of configs whose
\* name is the name shown in row `pick` (lines 59-62 and 145-147).
SelectedIndex(configs, pick) ==
  LET selected_name == Item(configs[pick], K_name)
      HasName(cfg) == Get(cfg, K_name, None) = selected_name
  IN FirstIndex(configs, HasName)

\* edit_config() lines 146-152: entry i is replaced by what the user types
\* over it, and the list is stored.
EditEntry(configs, i, t) ==
  LET data == prompt_config_data(configs[i], t)
  IN /\ typed' = t
     /\ IF data.exit
        THEN Ends("exit1") /\ UNCHANGED <<keychain, config>>
        ELSE /\ keychain' = store_configs([configs EXCEPT ![i] = data.config])
             /\ config' = data.config
             /\ Ends("exit0")

\* main() lines 329-331 with edit_config(): the user picks row `pick` of the
\* menu (0: the prompt is cancelled) and types t at the prompts.
edit_config ==
  /\ pc = "main"
  /\ ~args.new_config
  /\ args.edit_config
  /\ \E got \in {get_stored_configs(backend, keychain)} :
     LET configs == got.configs
     IN IF got.raised
        THEN Ends("exception") /\ UNCHANGED <<keychain, config, typed, menu>>
        ELSE IF configs = << >>
        THEN Ends("exit0") /\ UNCHANGED <<keychain, config, typed, menu>>
        ELSE \E pick \in 0..Len(configs) :
               /\ menu' = Append(menu, pick)
               /\ IF pick = 0 \/ \E i \in 1..Len(configs) : ~HasKey(configs[i], K_name)
                  THEN Ends("exception") /\ UNCHANGED <<keychain, config, typed>>
                  ELSE \E t \in Typings : EditEntry(configs, SelectedIndex(configs, pick), t)
  /\ UNCHANGED <<backend, args, region, idx, calls, lines, copied, before>>

\* find_org with the first configuration as the default of next().
find_org_or_first(configs, org) ==
  LET Named(cfg) == Get(cfg, K_name, None) = org
  IN IF FirstIndex(configs, Named) # 0 THEN FirstIndex(configs, Named)
     ELSE IF configs # << >> THEN 1 ELSE 0

\* Line 335: next((cfg for cfg in configs if cfg.get("name") == org), None),
\* as the index of the configuration found, 0 for None.
find_org(configs, org) ==
  LET Named(cfg) == Get(cfg, K_name, None) = org
  IN FirstIndex(configs, Named)

\* main() lines 332-338: --org names the configuration.
select_org ==
  /\ pc = "main"
  /\ ~args.new_config /\ ~args.edit_config
  /\ Truthy(args.org)
  /\ \E got \in {get_stored_configs(backend, keychain)} :
     LET i == find_org(got.configs, args.org)
     IN IF got.raised
        THEN Ends("exception") /\ UNCHANGED config
        ELSE IF i = 0 \/ ~TruthyDict(got.configs[i])
        THEN Ends("exit1") /\ UNCHANGED config
        ELSE pc' = "token" /\ status' = "none" /\ config' = got.configs[i]
  /\ UNCHANGED <<backend, keychain, args, region, idx, calls, lines, copied, typed,
                 menu, before>>

\* setup_config() lines 75-92: the creation flow, the user typing t.
CreateFirst(configs, t) ==
  LET data == setup_config_data(t)
  IN /\ typed' = t
     /\ menu' = menu
     /\ IF data.exit
        THEN Ends("exit1") /\ UNCHANGED <<keychain, config>>
        ELSE /\ keychain' = store_configs(Append(configs, data.config))
             /\ config' = data.config
             /\ pc' = "token" /\ status' = "none"

\* main() lines 332-333 and 339-340 with setup_config(): the user types t in
\* the creation flow, or picks row `pick` of the menu when
\* choose_default_config shows one (0: the prompt is cancelled).
setup_config ==
  /\ pc = "main"
  /\ ~args.new_config /\ ~args.edit_config
  /\ ~Truthy(args.org)
  /\ \E got \in {get_stored_configs(backend, keychain)} :
     LET configs == got.configs
     IN IF got.raised
        THEN Ends("exception") /\ UNCHANGED <<keychain, config, typed, menu>>
        ELSE IF configs = << >>
        THEN \E t \in Typings : CreateFirst(configs, t)
        ELSE /\ \E pick \in 0..Len(configs) :
                  LET chosen == choose_default_config(configs, pick)
                  IN /\ chosen.asked \/ pick = 0
                     /\ menu' = IF chosen.asked THEN Append(menu, pick) ELSE menu
                     /\ IF chosen.raised
                        THEN Ends("exception") /\ UNCHANGED config
                        ELSE pc' = "token" /\ status' = "none" /\ config' = chosen.config
             /\ UNCHANGED <<keychain, typed>>
  /\ UNCHANGED <<backend, args, region, idx, calls, lines, copied, before>>

\* What a request may come to: a response, requests.HTTPError from
\* raise_for_status(), or another exception of requests (no connection).
Outcomes == {"ok", "http_error", "other_error"}

Call(op, arg, outcome) == [op |-> op, arg |-> arg, outcome |-> outcome]

\* any([...]) of line 345
AnyLookup(a) ==
  Truthy(a.queue_name) \/ Truthy(a.user_name) \/ TruthyList(a.queue_id)
  \/ TruthyList(a.user_id) \/ Truthy(a.interaction)

\* The lookups in the order of lines 348-357.
Stages == <<"interaction", "user_id", "queue_id", "user_name", "queue_name">>

Populated(a, stage) ==
  CASE stage = "interaction" -> Truthy(a.interaction)
    [] stage = "user_id" -> TruthyList(a.user_id)
    [] stage = "queue_id" -> TruthyList(a.queue_id)
    [] stage = "user_name" -> Truthy(a.user_name)
    [] stage = "queue_name" -> Truthy(a.queue_name)

\* Dispatch as an if/elif chain: the first lookup whose argument is set, alone.
Dispatch_elif(a, after) ==
  LET given == {i \in 1..Len(Stages) : Populated(a, Stages[i])}
  IN IF after # 0 \/ given = {} THEN "exited"
     ELSE Stages[CHOOSE i \in given : \A j \in given : i <= j]

\* Lines 348-357: the first lookup after stage `after` whose argument is set;
\* main() returns ("exited") when there is none.
Dispatch(a, after) ==
  LET later == {i \in (after + 1)..Len(Stages) : Populated(a, Stages[i])}
  IN IF later = {} THEN "exited"
     ELSE Stages[CHOOSE i \in later : \A j \in later : i <= j]

GoTo(stage) == pc' = stage /\ status' = (IF stage = "exited" THEN "exit0" ELSE "none")

\* main() lines 342-345 with get_access_token(config).  main() does not read
\* config after line 343, and the model forgets it there.
get_access_token(outcome) ==
  /\ pc = "token"
  /\ calls' = Append(calls, Call("token", Get(config, K_CLIENT_ID, None), outcome))
  /\ IF outcome = "ok"
     THEN /\ region' = Get(config, K_GENESYS_CLOUD_REGION, DEFAULT_REGION)
          /\ IF AnyLookup(args) THEN GoTo(Dispatch(args, 0)) ELSE GoTo("prompt")
     ELSE Ends("exception") /\ UNCHANGED region
  /\ config' = NoneDict
  /\ UNCHANGED <<backend, keychain, args, idx, lines, copied, typed, menu, before>>

QUERY_USERID == "User by ID"
QUERY_USERNAME == "User by Name"
QUERY_QUEUEID == "Queue by ID"
QUERY_QUEUENAME == "Queue by Name"
QUERY_INTERACTION == "Interaction by ID"

\* inquirer.prompt returning None where the answers are expected.
NoAnswer == "None"

search_types == {QUERY_USERID, QUERY_USERNAME, QUERY_QUEUEID, QUERY_QUEUENAME, QUERY_INTERACTION}

A_user_id == <<"u", "s", "e", "r", "_", "i", "d">>
A_user_name == <<"u", "s", "e", "r", "_", "n", "a", "m", "e">>
A_queue_id == <<"q", "u", "e", "u", "e", "_", "i", "d">>
A_queue_name == <<"q", "u", "e", "u", "e", "_", "n", "a", "m", "e">>
A_interaction == <<"i", "n", "t", "e", "r", "a", "c", "t", "i", "o", "n">>

query_map(query_type) ==
  CASE query_type = QUERY_USERID -> A_user_id
    [] query_type = QUERY_USERNAME -> A_user_name
    [] query_type = QUERY_QUEUEID -> A_queue_id
    [] query_type = QUERY_QUEUENAME -> A_queue_name
    [] query_type = QUERY_INTERACTION -> A_interaction

\* setattr(args, attr, value)
setattr(a, attr, value) ==
  CASE attr = A_user_id -> [a EXCEPT !.user_id = value]
    [] attr = A_user_name -> [a EXCEPT !.user_name = value]
    [] attr = A_queue_id -> [a EXCEPT !.queue_id = value]
    [] attr = A_queue_name -> [a EXCEPT !.queue_name = value]
    [] attr = A_interaction -> [a EXCEPT !.interaction = value]

SearchInputs == {S_empty, S_n_padded}

\* main() line 346 with prompt_user_for_query(args): the user picks a kind of
\* lookup (NoAnswer: the prompt is cancelled) and types a search value.
prompt_user_for_query(selected, text) ==
  /\ pc = "prompt"
  /\ IF selected = NoAnswer
     THEN text = S_empty /\ Ends("exit0") /\ UNCHANGED args
     ELSE LET search_text == strip(text)
              attr == query_map(selected)
              a == setattr(args, attr,
                           IF Contains(S_id, attr) THEN <<search_text>> ELSE search_text)
          IN args' = a /\ GoTo(Dispatch(a, 0))
  /\ UNCHANGED <<backend, keychain, config, region, idx, calls, lines, copied, typed,
                 menu, before>>

\* main() lines 348-349 with process_interaction(): the key read is `key`.
process_interaction(outcome, key) ==
  /\ pc = "interaction"
  /\ calls' = Append(calls, Call("interaction", args.interaction, outcome))
  /\ IF outcome = "ok"
     THEN copied' = (key # "n") /\ GoTo(Dispatch(args, 1))
     ELSE key = "n" /\ Ends("exception") /\ UNCHANGED copied
  /\ UNCHANGED <<backend, keychain, args, config, region, idx, lines, typed, menu, before>>

Line(kind, id) == [kind |-> kind, id |-> id]

\* ProcessId without the try/except: an HTTP error leaves the loop as any
\* other exception does.
ProcessId_uncaught(stage, op, batch, outcome) ==
  /\ calls' = Append(calls, Call(op, batch[idx], outcome))
  /\ IF outcome = "ok"
     THEN lines' = Append(lines, Line("found", batch[idx]))
     ELSE lines' = lines
  /\ IF outcome # "ok"
     THEN Ends("exception") /\ UNCHANGED idx
     ELSE IF idx < Len(batch)
     THEN idx' = idx + 1 /\ UNCHANGED <<pc, status>>
     ELSE idx' = 1 /\ GoTo(Dispatch(args, stage))

\* One turn of the loop of process_users / process_queues over `batch`:
\* stage is the position of the function in Stages.
ProcessId(stage, op, batch, outcome) ==
  /\ calls' = Append(calls, Call(op, batch[idx], outcome))
  /\ IF outcome = "ok"
     THEN lines' = Append(lines, Line("found", batch[idx]))
     ELSE IF outcome = "http_error"
     THEN lines' = Append(lines, Line("failed", batch[idx]))
     ELSE lines' = lines
  /\ IF outcome = "other_error"
     THEN Ends("exception") /\ UNCHANGED idx
     ELSE IF idx < Len(batch)
     THEN idx' = idx + 1 /\ UNCHANGED <<pc, status>>
     ELSE idx' = 1 /\ GoTo(Dispatch(args, stage))

\* main() lines 350-351 with process_users(), one id at a time.
process_users(outcome) ==
  /\ pc = "user_id"
  /\ ProcessId(2, "user", args.user_id, outcome)
  /\ UNCHANGED <<backend, keychain, args, config, region, copied, typed, menu, before>>

\* main() lines 352-353 with process_queues(), one id at a time.
process_queues(outcome) ==
  /\ pc = "queue_id"
  /\ ProcessId(3, "queue", args.queue_id, outcome)
  /\ UNCHANGED <<backend, keychain, args, config, region, copied, typed, menu, before>>

\* main() lines 354-355 with search_users().
search_users(outcome) ==
  /\ pc = "user_name"
  /\ calls' = Append(calls, Call("search_users", args.user_name, outcome))
  /\ IF outcome = "ok" THEN GoTo(Dispatch(args, 4)) ELSE Ends("exception")
  /\ UNCHANGED <<backend, keychain, args, config, region, idx, lines, copied, typed,
                 menu, before>>

\* main() lines 356-357 with search_queues().
search_queues(outcome) ==
  /\ pc = "queue_name"
  /\ calls' = Append(calls, Call("search_queues", args.queue_name, outcome))
  /\ IF outcome = "ok" THEN GoTo(Dispatch(args, 5)) ELSE Ends("exception")
  /\ UNCHANGED <<backend, keychain, args, config, region, idx, lines, copied, typed,
                 menu, before>>

Next ==
  \/ \E a \in CommandLines : Start(a)
  \/ Reap
  \/ create_new_config
  \/ edit_config
  \/ select_org
  \/ setup_config
  \/ \E outcome \in Outcomes : get_access_token(outcome)
  \/ \E selected \in search_types \cup {NoAnswer}, text \in SearchInputs :
       prompt_user_for_query(selected, text)
  \/ \E outcome \in Outcomes, key \in {"n", "y"} : process_interaction(outcome, key)
  \/ \E outcome \in Outcomes : process_users(outcome)
  \/ \E outcome \in Outcomes : process_queues(outcome)
  \/ \E outcome \in Outcomes : search_users(outcome)
  \/ \E outcome \in Outcomes : search_queues(outcome)

Spec == Init /\ [][Next]_vars

SpecEnv == InitEnv /\ [][Next]_vars


(* ------------------------------------------------------------------ *)
(* Properties                                                          *)
(* ------------------------------------------------------------------ *)

\* The list get_stored_configs() returns for keychain value kc.
Listed(kc) == get_stored_configs(backend, kc).configs

NameOf(cfg) == Get(cfg, K_name, None)
Blank(s) == strip(s) = << >>
NamedDefault(cfg) == lower(NameOf(cfg)) = S_default

\* The invocation is one of --new-config, of --edit-config, or a lookup.
CreateRun == pc # "shell" /\ args.new_config
EditRun == pc # "shell" /\ ~args.new_config /\ args.edit_config
LookupRun == pc # "shell" /\ ~args.new_config /\ ~args.edit_config
\* The invocation is past the step that settles its configuration.
Settled == pc \notin {"shell", "main"}
\* The invocation went through the creation flow of setup_config().
SetupFlow == LookupRun /\ typed # NothingTyped

CredentialsSet(cfg) ==
  /\ Truthy(Get(cfg, K_CLIENT_ID, None))
  /\ Truthy(Get(cfg, K_CLIENT_SECRET, None))

AllCredentialsSet ==
  LET stored == StoredNow
  IN \A i \in 1..Len(stored) : CredentialsSet(stored[i])

BlankCredentialTyped ==
  typed # NothingTyped /\ (Blank(typed.client_id) \/ Blank(typed.client_secret))

\* C1 as stated: every stored configuration has a non-empty client id and a
\* non-empty client secret, and an invocation in which the user gave an empty
\* client id or secret at the prompts of a creation or of an edit has exited
\* with an error, the stored value as it was.
C1_AsStated ==
  /\ AllCredentialsSet
  /\ (Settled /\ BlankCredentialTyped) => (status = "exit1" /\ keychain = before)

\* C1 as amended: every stored configuration has a non-empty client id and a
\* non-empty client secret; a creation (setup flow or --new-config) in which
\* the client id or the secret typed is empty after trimming has exited with
\* status 1, the stored value as it was; an edit in which one of them is left
\* empty has succeeded, the entry keeping the client id or secret it had.
C1_Amended ==
  /\ AllCredentialsSet
  /\ (Settled /\ BlankCredentialTyped /\ ~EditRun)
       => (status = "exit1" /\ keychain = before)
  /\ (Settled /\ BlankCredentialTyped /\ EditRun)
       => LET stored == StoredNow
              old == Listed(before)
          IN /\ status = "exit0"
             /\ Len(stored) = Len(old)
             /\ \E i \in 1..Len(stored) :
                  /\ stored[i] = config
                  /\ Blank(typed.client_id) =>
                       Get(config, K_CLIENT_ID, None) = Get(old[i], K_CLIENT_ID, None)
                  /\ Blank(typed.client_secret) =>
                       Get(config, K_CLIENT_SECRET, None) = Get(old[i], K_CLIENT_SECRET, None)

\* --new-config was refused for a blank client id, an earlier configuration
\* still in the store.
C1_Witness ==
  /\ CreateRun /\ pc = "exited" /\ status = "exit1"
  /\ Blank(typed.client_id)
  /\ Len(StoredNow) >= 1
  /\ keychain = before

\* C2: no two stored configurations have the same name.
C2_NamesUnique ==
  \A i, j \in 1..Len(StoredNow) : i # j => NameOf(StoredNow[i]) # NameOf(StoredNow[j])

\* C3: when the stored list holds an entry named "default" in any letter
\* case, a lookup without --org shows no menu, does not end in the selection,
\* and goes on with an entry so named (the first of them).
C3_DefaultChosen ==
  (LookupRun /\ ~Truthy(args.org) /\ Settled /\ ~SetupFlow)
  => LET old == Listed(before)
     IN (\E i \in 1..Len(old) : NamedDefault(old[i]))
        => /\ menu = << >>
           /\ calls = << >> => pc = "token"
           /\ pc = "token" =>
                \E i \in 1..Len(old) :
                  /\ config = old[i]
                  /\ NamedDefault(old[i])
                  /\ \A j \in 1..(i - 1) : ~NamedDefault(old[j])

\* The entry named "Default" was chosen, second in a list of two.
C3_Witness ==
  /\ LookupRun /\ ~Truthy(args.org) /\ pc = "token"
  /\ Len(StoredNow) = 2
  /\ ~NamedDefault(StoredNow[1])
  /\ NameOf(StoredNow[2]) = S_Default
  /\ config = StoredNow[2]
  /\ menu = << >>

\* C4: when the stored list holds two or more entries and none named
\* "default", a lookup without --org that got its configuration showed the
\* menu once and goes on with the entry in the row the user picked.
C4_ChosenReturned ==
  (LookupRun /\ ~Truthy(args.org) /\ pc = "token"
     /\ Len(Listed(before)) >= 2
     /\ \A i \in 1..Len(Listed(before)) : ~NamedDefault(Listed(before)[i]))
  => /\ Len(menu) = 1
     /\ menu[1] \in 1..Len(Listed(before))
     /\ config = Listed(before)[menu[1]]

\* The calls of `op` among the requests made, in order.
CallsOf(op) == LET IsOp(c) == c.op = op IN SelectSeq(calls, IsOp)

\* The result lines owed for a sequence of per-id requests.
RECURSIVE LinesFor(_)
LinesFor(cs) ==
  IF cs = << >> THEN << >>
  ELSE (IF cs[1].outcome = "ok" THEN <<Line("found", cs[1].arg)>>
        ELSE IF cs[1].outcome = "http_error" THEN <<Line("failed", cs[1].arg)>>
        ELSE << >>)
       \o LinesFor(Tail(cs))

BatchFetched(op, batch, stage) ==
  LET cs == CallsOf(op)
  IN /\ Len(cs) <= Len(batch)
     /\ \A k \in 1..Len(cs) : cs[k].arg = batch[k]
     /\ pc = stage => Len(cs) = idx - 1
     /\ (LookupRun /\ status = "exit0" /\ calls # << >>) => Len(cs) = Len(batch)

\* C5: the ids of a batch are fetched one by one in batch order, each once;
\* every fetch that came back or raised an HTTP error has its one line, found
\* or failed, in that order; an HTTP error of a fetch never ends the process;
\* and an invocation that ran to its end has fetched every id of its batches.
C5_BatchContinues ==
  /\ TruthyList(args.user_id) => BatchFetched("user", args.user_id, "user_id")
  /\ TruthyList(args.queue_id) => BatchFetched("queue", args.queue_id, "queue_id")
  /\ lines = LinesFor(CallsOf("user")) \o LinesFor(CallsOf("queue"))
  /\ (status = "exception" /\ calls # << >> /\ calls[Len(calls)].op \in {"user", "queue"})
       => calls[Len(calls)].outcome = "other_error"

\* The first id of a user batch failed and the second was found.
C5_Witness ==
  /\ status = "exit0"
  /\ Len(args.user_id) >= 2
  /\ Len(lines) >= 2
  /\ lines[1] = Line("failed", args.user_id[1])
  /\ lines[2] = Line("found", args.user_id[2])

\* C6: an invocation with --org naming no entry of a non-empty stored list
\* has ended with status 1, without any request, the stored value as it was.
C6_UnknownOrg ==
  (LookupRun /\ Truthy(args.org) /\ Settled
     /\ Len(Listed(before)) >= 1
     /\ \A i \in 1..Len(Listed(before)) : NameOf(Listed(before)[i]) # args.org)
  => /\ pc = "exited"
     /\ status = "exit1"
     /\ calls = << >>
     /\ keychain = before

C6_Witness ==
  /\ LookupRun /\ args.org = S_zz /\ pc = "exited" /\ status = "exit1"
  /\ Len(Listed(before)) >= 1
  /\ calls = << >>

\* What a prompt's answer stands for: the text trimmed, or dflt when that is empty.
Entered(text, dflt) == IF Blank(text) THEN dflt ELSE strip(text)

\* C7: after the setup flow created a configuration, the stored list is that
\* one configuration, equal to the one the flow returned, and its name, region,
\* client id and client secret are the values entered (trimmed, the default
\* name and region for what was left empty).
C7_RoundTrip ==
  (SetupFlow /\ status # "exit1")
  => /\ Len(StoredNow) = 1
     /\ pc = "token" => StoredNow[1] = config
     /\ Get(StoredNow[1], K_name, None) = Entered(typed.name, S_default)
     /\ Get(StoredNow[1], K_CLIENT_ID, None) = Entered(typed.client_id, None)
     /\ Get(StoredNow[1], K_CLIENT_SECRET, None) = Entered(typed.client_secret, None)
     /\ Get(StoredNow[1], K_GENESYS_CLOUD_REGION, None) = Entered(typed.region, DEFAULT_REGION)
     /\ Len(StoredNow[1]) = 4

C7_Witness ==
  /\ SetupFlow /\ pc = "token"
  /\ typed.name = S_a_padded /\ typed.region = S_r
  /\ StoredNow = <<ConfigDict(S_a, S_x, S_secret, S_r)>>

\* The stored value cannot be read as a list of configurations: the keyring
\* is unavailable, the text is no JSON, or the JSON value is no list.
Unreadable(kc) ==
  \/ backend = "fail"
  \/ /\ kc.set /\ kc.text # << >>
     /\ ~(json_loads(kc.text).ok /\ json_loads(kc.text).type = "list")

\* C8: an invocation without --org that found an unreadable stored value has
\* gone into the creation flow, and has not ended by an exception before it.
C8_NeverFatal ==
  (LookupRun /\ ~Truthy(args.org) /\ Settled /\ Unreadable(before))
  => typed # NothingTyped

\* C9: the number of stored configurations never decreases in an invocation;
\* a lookup that found a non-empty list leaves the stored value as it was; an
\* edit leaves every entry but the one in the row picked as and where it was.
C9_NothingDeleted ==
  /\ pc # "shell" => Len(StoredNow) >= Len(Listed(before))
  /\ (LookupRun /\ Len(Listed(before)) >= 1) => keychain = before
  /\ (EditRun /\ Len(menu) = 1 /\ menu[1] # 0)
       => /\ Len(StoredNow) = Len(Listed(before))
          /\ \A j \in 1..Len(StoredNow) :
               j # menu[1] => StoredNow[j] = Listed(before)[j]

\* The place of a request in the order of the lookups, 0 for the token request.
StageOf(op) ==
  CASE op = "token" -> 0
    [] op = "interaction" -> 1
    [] op = "user" -> 2
    [] op = "queue" -> 3
    [] op = "search_users" -> 4
    [] op = "search_queues" -> 5

\* The argument of the command line (or of the selector) a request is made for.
Asked(c) ==
  CASE c.op = "interaction" -> args.interaction # None /\ args.interaction # << >>
                                /\ c.arg = args.interaction
    [] c.op = "user" -> args.user_id # NoneList /\ \E k \in 1..Len(args.user_id) : c.arg = args.user_id[k]
    [] c.op = "queue" -> args.queue_id # NoneList /\ \E k \in 1..Len(args.queue_id) : c.arg = args.queue_id[k]
    [] c.op = "search_users" -> args.user_name # None /\ args.user_name # << >>
                                 /\ c.arg = args.user_name
    [] c.op = "search_queues" -> args.queue_name # None /\ args.queue_name # << >>
                                  /\ c.arg = args.queue_name
    [] c.op = "token" -> TRUE

\* C10: the first request of an invocation is its one token request; the
\* lookups follow in the order interaction, user ids, queue ids, user-name
\* search, queue-name search, each kind run at most once (one request, or one
\* per id of its batch) and only for an argument that was given; and an
\* invocation that ran to its end has run every kind whose argument was given.
C10_FixedOrder ==
  /\ \A k \in 1..Len(calls) : (calls[k].op = "token") <=> (k = 1)
  /\ \A k, l \in 1..Len(calls) :
       k < l => \/ StageOf(calls[k].op) < StageOf(calls[l].op)
                \/ /\ calls[k].op = calls[l].op
                   /\ calls[k].op \in {"user", "queue"}
                   /\ calls[k].arg # calls[l].arg
  /\ \A k \in 1..Len(calls) : Asked(calls[k])
  /\ (LookupRun /\ pc = "exited" /\ status = "exit0" /\ calls # << >>)
       => /\ Truthy(args.interaction) => CallsOf("interaction") # << >>
          /\ TruthyList(args.user_id) => Len(CallsOf("user")) = Len(args.user_id)
          /\ TruthyList(args.queue_id) => Len(CallsOf("queue")) = Len(args.queue_id)
          /\ Truthy(args.user_name) => CallsOf("search_users") # << >>
          /\ Truthy(args.queue_name) => CallsOf("search_queues") # << >>

\* All five kinds ran in one invocation.
C10_Witness ==
  /\ pc = "exited" /\ status = "exit0"
  /\ [k \in 1..Len(calls) |-> calls[k].op]
       = <<"token", "interaction", "user", "queue", "search_users", "search_queues">>

====
